---------------------------- MODULE Spec2Model ----------------------------
(***************************************************************************)
(* vs-phonk (src/src/extension.ts): the asset rotator (getRandomAsset),    *)
(* the celebration sequencer (updateSidebar and its timers), the duration  *)
(* probe chain (getAudioDuration) and the diagnostics observer             *)
(* (checkLinterErrors), as one state machine over the closure variables    *)
(* of activate().  Every action is one run of the JavaScript event loop:   *)
(* a handler from its entry to its return or its first await.              *)
(***************************************************************************)
EXTENDS Integers, Sequences, FiniteSets, TLC

(* ------------------------------ constants ------------------------------ *)

TIMEOUT == 10000

MAX_HISTORY == 3

\* setTimeout(checkLinterErrors, 1000) of the text-change handler
CHECK_DELAY == 1000

\* the duration used when the probes give no usable number
FALLBACK_DURATION == 5000

(* ------------------------------- bounds -------------------------------- *)

\* rotator runs: largest number of accepted files in an asset directory, and
\* largest number of celebration calls (each picks at most once per category)
MaxPool == 4

MaxPicks == 4

\* sequencer runs: the same two bounds for the image directory (the sound
\* directory holds at most one file)
SeqPool == 1

SeqCalls == 3

\* sequencer runs under fairness: the same two bounds
FairPool == 2

FairCalls == 3

\* largest total error count the diagnostics registry reports
MaxErrors == 1

\* largest number of pending text-change timers
MaxTextTimers == 1

\* probe runs: largest number of characters a probe command writes to stdout
MaxLen == 4

(* ------------------------------ utilities ------------------------------ *)

Null == [null |-> TRUE]

Range(seq) == {seq[i] : i \in DOMAIN seq}

Max2(a, b) == IF a >= b THEN a ELSE b

RemoveAt(seq, i) == [j \in 1..(Len(seq) - 1) |-> IF j < i THEN seq[j] ELSE seq[j + 1]]

(* --------------------------- the bundled assets ------------------------ *)

Directories == {"faces", "phonk"}

\* a directory listing with n accepted files among files the filter drops
\* (a wrong extension, an extension in the wrong case)
Listing(directory, n) ==
    LET exts == IF directory = "faces" THEN <<".png", ".jpg", ".jpeg">>
                                       ELSE <<".ogg", ".mp3", ".wav">>
        junk == IF directory = "faces" THEN ".PNG" ELSE ".txt"
    IN  <<[stem |-> 0, ext |-> junk]>> \o
        [i \in 1..n |-> [stem |-> i, ext |-> exts[((i - 1) % 3) + 1]]]

\* the states of assets/<directory> on disk: absent, or one of the listings
DirStates(directory, maxPool) ==
    {[exists |-> FALSE, files |-> <<>>]}
        \cup {[exists |-> TRUE, files |-> Listing(directory, n)] : n \in 0..maxPool}

\* The bundles a sequencer run starts from: the sequencer reads of a sound
\* only whether one was found.
SequencerAssets(maxPool) ==
    {[faces |-> f, phonk |-> p] :
        f \in DirStates("faces", maxPool), p \in DirStates("phonk", 1)}

\* The bundles a rotator run starts from.  The two directories share no state,
\* so one of them ranges over every listing and the other holds at most one file.
RotatorAssets(maxPool) ==
    SequencerAssets(maxPool)
    \cup {[faces |-> f, phonk |-> p] :
        f \in DirStates("faces", 1), p \in DirStates("phonk", maxPool)}

VARIABLES
    assets,            \* [directory -> its state on disk] (read-only bundle)
    sidebarWebview,    \* TRUE when the webview handle is defined
    html,              \* sidebarWebview.webview.html
    isAudioPlaying,
    lastFaceIndices,
    lastAudioIndices,
    errorCount,        \* linterState.errorCount
    diagnostics,       \* total error count vscode.languages.getDiagnostics() gives
    diagEvent,         \* TRUE while an onDidChangeDiagnostics event is undelivered
    probes,            \* sound paths whose getAudioDuration has not resolved
    timers,            \* pending setTimeout callbacks, in arming order
    played,            \* number of playSystemAudio calls so far
    hung,              \* TRUE once the event loop is stuck in the do-while loop
    faceLog,           \* every index getRandomAsset('faces') accepted, in order
    audioLog,          \* every index getRandomAsset('phonk') accepted, in order
    last,              \* the handler that ran last and the paths it picked
    callBound,         \* the number of celebration calls the run is cut at
    execs              \* the exec callbacks a getAudioDuration call has run, when
                       \* the call is followed callback by callback

vars == <<assets, sidebarWebview, html, isAudioPlaying, lastFaceIndices,
          lastAudioIndices, errorCount, diagnostics, diagEvent, probes, timers,
          played, hung, faceLog, audioLog, last, callBound, execs>>

\* the closure state a handler reads and writes, as one record
State ==
    [assets |-> assets, sidebarWebview |-> sidebarWebview, html |-> html,
     isAudioPlaying |-> isAudioPlaying, lastFaceIndices |-> lastFaceIndices,
     lastAudioIndices |-> lastAudioIndices, errorCount |-> errorCount,
     probes |-> probes, timers |-> timers, played |-> played, hung |-> hung,
     faceLog |-> faceLog, audioLog |-> audioLog, last |-> last,
     execs |-> execs]

Becomes(s) ==
    /\ sidebarWebview' = s.sidebarWebview
    /\ html' = s.html
    /\ isAudioPlaying' = s.isAudioPlaying
    /\ lastFaceIndices' = s.lastFaceIndices
    /\ lastAudioIndices' = s.lastAudioIndices
    /\ errorCount' = s.errorCount
    /\ probes' = s.probes
    /\ timers' = s.timers
    /\ played' = s.played
    /\ hung' = s.hung
    /\ faceLog' = s.faceLog
    /\ audioLog' = s.audioLog
    /\ last' = s.last
    /\ execs' = s.execs
    /\ assets' = assets
    /\ callBound' = callBound

(* ----------------------------- getRandomAsset -------------------------- *)

Extensions(directory) ==
    IF directory = "faces" THEN {".png", ".jpg", ".jpeg"}
                           ELSE {".ogg", ".mp3", ".wav"}

IsValidFile(directory, file) == file.ext \in Extensions(directory)

ValidFiles(dir, directory) ==
    SelectSeq(dir.files, LAMBDA file : IsValidFile(directory, file))

MinFiles(directory) == IF directory = "faces" THEN 1 ELSE MAX_HISTORY

\* seeded fault: nothing is ever drawn again
RedrawNever(randomIndex, lastIndices, n, minFiles) == FALSE

\* seeded fault: >= where the loop has >
RedrawAtMinFiles(randomIndex, lastIndices, n, minFiles) ==
    randomIndex \in Range(lastIndices) /\ n >= minFiles

\* the do-while condition: the drawn index is drawn again
Redraw(randomIndex, lastIndices, n, minFiles) ==
    randomIndex \in Range(lastIndices) /\ n > minFiles

\* seeded fault: the newest index is dropped where the oldest should be
PushIndexDropNewest(lastIndices, randomIndex) ==
    LET pushed == Append(lastIndices, randomIndex)
    IN  IF Len(pushed) > MAX_HISTORY THEN SubSeq(pushed, 1, MAX_HISTORY) ELSE pushed

\* lastIndices.push(randomIndex); if (length > MAX_HISTORY) shift()
PushIndex(lastIndices, randomIndex) ==
    LET pushed == Append(lastIndices, randomIndex)
    IN  IF Len(pushed) > MAX_HISTORY THEN Tail(pushed) ELSE pushed

LastIndices(s, directory) ==
    IF directory = "faces" THEN s.lastFaceIndices ELSE s.lastAudioIndices

\* the indices on which the do-while loop can stop
AcceptedDraws(s, directory) ==
    LET n == Len(ValidFiles(s.assets[directory], directory))
    IN  {i \in 0..(n - 1) :
            ~Redraw(i, LastIndices(s, directory), n, MinFiles(directory))}

\* the values Math.random() may end the loop with; 0 stands for a call that
\* draws nothing or never stops drawing
Draws(s, directory) ==
    IF AcceptedDraws(s, directory) = {} THEN {0} ELSE AcceptedDraws(s, directory)

\* what either version does once the loop has stopped on draw
Accept(s, directory, draw, validFiles) ==
    [s |-> IF directory = "faces"
           THEN [s EXCEPT !.lastFaceIndices = PushIndex(@, draw),
                          !.faceLog = Append(@, draw)]
           ELSE [s EXCEPT !.lastAudioIndices = PushIndex(@, draw),
                          !.audioLog = Append(@, draw)],
     path |-> [dir |-> directory, index |-> draw,
               file |-> IF draw + 1 \in DOMAIN validFiles THEN validFiles[draw + 1]
                                                          ELSE "undefined"]]

\* seeded fault: no return on an empty list; Math.floor(Math.random() * 0) is 0,
\* which the loop accepts when it is not in the history
GetRandomAssetNoEmptyCheck(s, directory, draw) ==
    LET dir == s.assets[directory]
        validFiles == ValidFiles(dir, directory)
        n == Len(validFiles)
        stops == IF n = 0
                    THEN ~Redraw(0, LastIndices(s, directory), n, MinFiles(directory))
                    ELSE AcceptedDraws(s, directory) # {}
    IN  IF ~dir.exists THEN [s |-> s, path |-> Null]
        ELSE IF ~stops THEN [s |-> [s EXCEPT !.hung = TRUE], path |-> Null]
        ELSE Accept(s, directory, IF n = 0 THEN 0 ELSE draw, validFiles)

\* getRandomAsset(directory) ending its loop on `draw`: the state after it and
\* the path returned.  With no index the loop can accept, every draw is drawn
\* again and the call never returns: the event loop hangs.
GetRandomAsset(s, directory, draw) ==
    LET dir == s.assets[directory]
        validFiles == ValidFiles(dir, directory)
    IN  IF ~dir.exists THEN [s |-> s, path |-> Null]
        ELSE IF Len(validFiles) = 0 THEN [s |-> s, path |-> Null]
        ELSE IF AcceptedDraws(s, directory) = {}
            THEN [s |-> [s EXCEPT !.hung = TRUE], path |-> Null]
        ELSE Accept(s, directory, draw, validFiles)

(* ------------------------------ updateSidebar -------------------------- *)

Blank == [kind |-> "blank"]

Image(imagePath) == [kind |-> "image", src |-> imagePath]

Timer(kind, delay) == [kind |-> kind, remaining |-> delay]

\* seeded fault: the flag is not read
StartsAudioUnguarded(soundPath, playing) == soundPath # Null

\* if (soundPath && !isAudioPlaying)
StartsAudio(soundPath, playing) == soundPath # Null /\ ~playing

\* the delay of the timer armed when no sound was found
FallbackDelay == TIMEOUT

\* the sound branches of lines 175-188
Sound(shown, soundPath, playing) ==
    IF StartsAudio(soundPath, playing)
        THEN [shown EXCEPT !.isAudioPlaying = TRUE,
                           !.probes = Append(@, soundPath),
                           !.last.branch = "audio"]
    ELSE IF soundPath = Null
        THEN [shown EXCEPT
                 !.timers = Append(@, Timer("fallback", FallbackDelay)),
                 !.last.branch = "fallback"]
    ELSE [shown EXCEPT !.last.branch = "imageOnly"]

\* seeded fault: if (imagePath) closes after the render, before the sound branches
CelebrateSoundWithoutImage(s, imagePath, soundPath) ==
    Sound(IF imagePath = Null THEN s ELSE [s EXCEPT !.html = Image(imagePath)],
          soundPath, s.isAudioPlaying)

\* the celebration branch from line 142 on, with both paths picked
Celebrate(s, imagePath, soundPath) ==
    IF imagePath = Null THEN [s EXCEPT !.last.branch = "noImage"]
    ELSE Sound([s EXCEPT !.html = Image(imagePath)], soundPath, s.isAudioPlaying)

\* seeded fault: the early return is missing
SurfaceNeverMissing(s) == FALSE

\* if (!sidebarWebview) return
SurfaceMissing(s) == ~s.sidebarWebview

\* updateSidebar(showCelebration) up to its return or its await
UpdateSidebar(s, showCelebration, faceDraw, audioDraw) ==
    IF SurfaceMissing(s) THEN [s EXCEPT !.last.branch = "noSurface"]
    ELSE IF showCelebration
        THEN LET image == GetRandomAsset(s, "faces", faceDraw)
                 sound == GetRandomAsset(image.s, "phonk", audioDraw)
             IN  IF image.s.hung THEN image.s
                 ELSE IF sound.s.hung THEN sound.s
                 ELSE Celebrate([sound.s EXCEPT !.last.imagePath = image.path,
                                                !.last.soundPath = sound.path],
                                image.path, sound.path)
    ELSE [s EXCEPT !.html = Blank, !.last.branch = "blank"]


(* ---------------------------- getAudioDuration ------------------------- *)

\* A probe's stdout is a sequence of characters.
Whitespace == {" ", "\n"}

DigitChars == {"0", "1", "2", "3", "4", "5", "6", "7", "8", "9"}

DigitValue(c) ==
    CASE c = "0" -> 0 [] c = "1" -> 1 [] c = "2" -> 2 [] c = "3" -> 3
      [] c = "4" -> 4 [] c = "5" -> 5 [] c = "6" -> 6 [] c = "7" -> 7
      [] c = "8" -> 8 [] c = "9" -> 9

RECURSIVE TrimStart(_)
TrimStart(str) ==
    IF str # <<>> /\ Head(str) \in Whitespace THEN TrimStart(Tail(str)) ELSE str

RECURSIVE TrimEnd(_)
TrimEnd(str) ==
    IF str # <<>> /\ str[Len(str)] \in Whitespace
        THEN TrimEnd(SubSeq(str, 1, Len(str) - 1))
        ELSE str

\* String.prototype.trim
Trim(str) == TrimEnd(TrimStart(str))

\* the longest prefix of str made of digits
RECURSIVE DigitPrefix(_)
DigitPrefix(str) ==
    IF str # <<>> /\ Head(str) \in DigitChars
        THEN <<Head(str)>> \o DigitPrefix(Tail(str))
        ELSE <<>>

RECURSIVE DigitsValue(_)
DigitsValue(digits) ==
    IF digits = <<>> THEN 0
    ELSE 10 * DigitsValue(SubSeq(digits, 1, Len(digits) - 1))
            + DigitValue(digits[Len(digits)])

NaN == [nan |-> TRUE]

\* parseFloat on an unsigned decimal without exponent: the longest prefix
\* digits[.digits] or .digits; NaN when there is none.  The number is kept
\* exactly, as its integer part and its fraction digits.
ParseFloat(str) ==
    LET int == DigitPrefix(str)
        rest == SubSeq(str, Len(int) + 1, Len(str))
        frac == IF rest # <<>> /\ Head(rest) = "." THEN DigitPrefix(Tail(rest))
                                                    ELSE <<>>
    IN  IF int = <<>> /\ frac = <<>> THEN NaN
        ELSE [nan |-> FALSE, int |-> DigitsValue(int), frac |-> frac]

\* Math.floor(x * 1000) for the exact decimal x >= 0
FloorMillis(x) ==
    LET f == x.frac \o <<"0", "0", "0">>
    IN  x.int * 1000 + DigitsValue(SubSeq(f, 1, 3))

\* Math.floor(parseFloat(result.trim()) * 1000) || 5000
ToMillis(result) ==
    LET x == ParseFloat(Trim(result))
    IN  IF x = NaN THEN FALLBACK_DURATION
        ELSE IF FloorMillis(x) = 0 THEN FALLBACK_DURATION
        ELSE FloorMillis(x)

\* One run of a probe command: exec's (error, stdout).
Ran(error, stdout) == [error |-> error, stdout |-> stdout]

\* the string the nested exec callbacks resolve the promise with, for the
\* outcomes of ffprobe, of the platform fallback and of soxi
ResolvedOutput(chain) ==
    IF ~chain[1].error THEN chain[1].stdout
    ELSE IF ~chain[2].error THEN chain[2].stdout
    ELSE IF chain[3].stdout # <<>> THEN chain[3].stdout
    ELSE <<"5">>

\* the probes exec actually ran: a later one runs only in the error callback
\* of the one before it
ProbesRun(chain) ==
    IF ~chain[1].error THEN 1 ELSE IF ~chain[2].error THEN 2 ELSE 3

GetAudioDuration(chain) == ToMillis(ResolvedOutput(chain))

\* the outcomes of the three probes the model draws from
ProbeChains ==
    {<<Ran(FALSE, <<"2", "\n">>), Ran(TRUE, <<>>), Ran(TRUE, <<>>)>>,
     <<Ran(TRUE, <<>>), Ran(FALSE, <<"3", ".", "5", "\n">>), Ran(FALSE, <<"2", "\n">>)>>,
     <<Ran(TRUE, <<>>), Ran(TRUE, <<>>), Ran(TRUE, <<>>)>>,
     <<Ran(FALSE, <<"0", "\n">>), Ran(FALSE, <<"2", "\n">>), Ran(TRUE, <<>>)>>,
     <<Ran(TRUE, <<>>), Ran(FALSE, <<"N", "/", "A">>), Ran(TRUE, <<>>)>>,
     <<Ran(TRUE, <<>>), Ran(TRUE, <<>>), Ran(FALSE, <<"2", "\n">>)>>}

\* the duration each of these outcomes resolves to
AudioDuration == [chain \in ProbeChains |-> GetAudioDuration(chain)]

\* The same call followed callback by callback.  The characters of a stdout:
ProbeChars == {"0", "3", "5", ".", "\n", "N"}

\* what a command may have written when its callback runs
Outputs == UNION {[1..k -> ProbeChars] : k \in 0..MaxLen}

\* what a failed ffprobe or platform fallback may have written (their
\* callbacks do not read it)
UnreadOutputs == {<<>>, <<"3", "\n">>}

\* ffprobe's and the platform fallback's callback: if (error) exec(the next)
RunsNext(ran) == ran.error

\* the exec callbacks so far resolve the promise
Resolves(ran) ==
    ran # <<>> /\ (Len(ran) = 3 \/ ~RunsNext(ran[Len(ran)]))

(* --------------------------- checkLinterErrors ------------------------- *)

\* seeded fault: any change of the count counts, !== where the test has <
DecreasedOrChanged(previous, currentErrorCount) == currentErrorCount # previous

\* if (linterState.errorCount > 0 && currentErrorCount < linterState.errorCount)
Decreased(previous, currentErrorCount) ==
    previous > 0 /\ currentErrorCount < previous

\* seeded fault: the branch calls updateSidebar(true) like the other one
RenderBySidebar(s, faceDraw) == UpdateSidebar(s, TRUE, faceDraw, 0)

\* the branch taken while audio is playing: a new image and nothing else
RenderImageOnly(s, faceDraw) ==
    LET image == GetRandomAsset(s, "faces", faceDraw)
        picked == [image.s EXCEPT !.last.imagePath = image.path,
                                  !.last.branch = "observerImage"]
    IN  IF image.s.hung THEN image.s
        ELSE IF image.path # Null /\ picked.sidebarWebview
            THEN [picked EXCEPT !.html = Image(image.path)]
        ELSE picked

\* seeded fault: the count is stored only when nothing was celebrated
CheckLinterErrorsReturnsEarly(s, currentErrorCount, faceDraw, audioDraw) ==
    IF Decreased(s.errorCount, currentErrorCount)
        THEN IF s.isAudioPlaying THEN RenderImageOnly(s, faceDraw)
                                 ELSE UpdateSidebar(s, TRUE, faceDraw, audioDraw)
        ELSE [s EXCEPT !.errorCount = currentErrorCount]

\* checkLinterErrors() with getDiagnostics() summing to currentErrorCount
CheckLinterErrors(s, currentErrorCount, faceDraw, audioDraw) ==
    LET after ==
            IF Decreased(s.errorCount, currentErrorCount)
                THEN IF s.isAudioPlaying
                        THEN RenderImageOnly(s, faceDraw)
                        ELSE UpdateSidebar(s, TRUE, faceDraw, audioDraw)
                ELSE s
    IN  IF after.hung THEN after
        ELSE [after EXCEPT !.errorCount = currentErrorCount]

(* -------------------------------- actions ------------------------------ *)

\* the state a handler named op starts from
Begin(op) ==
    [State EXCEPT !.last = [op |-> op, imagePath |-> Null, soundPath |-> Null,
                            branch |-> "none"]]

\* celebration calls made so far, and the one a stored count above the
\* current count will still cause
Used == Max2(Len(faceLog), Len(audioLog))

Owed(current) == IF errorCount > current THEN 1 ELSE 0

\* SidebarProvider.resolveWebviewView
ResolveWebviewView ==
    /\ ~hung
    /\ ~sidebarWebview
    /\ Becomes(UpdateSidebar([Begin("resolve") EXCEPT !.sidebarWebview = TRUE],
                             FALSE, 0, 0))
    /\ UNCHANGED <<diagnostics, diagEvent>>

\* the command vs-phonk.makeMeFeelSigma
ManualTrigger ==
    /\ ~hung
    /\ Used + Owed(diagnostics) < callBound
    /\ \E faceDraw \in Draws(State, "faces"), audioDraw \in Draws(State, "phonk") :
          Becomes(UpdateSidebar(Begin("trigger"), TRUE, faceDraw, audioDraw))
    /\ UNCHANGED <<diagnostics, diagEvent>>

\* a language service changes the diagnostics; the host will deliver
\* onDidChangeDiagnostics
DiagnosticsSet ==
    /\ ~hung
    /\ \E n \in 0..MaxErrors :
          /\ n # diagnostics
          /\ Used + Owed(n) <= callBound
          /\ diagnostics' = n
    /\ diagEvent' = TRUE
    /\ UNCHANGED <<assets, sidebarWebview, html, isAudioPlaying, lastFaceIndices,
                   lastAudioIndices, errorCount, probes, timers, played, hung,
                   faceLog, audioLog, last, callBound, execs>>

\* the onDidChangeDiagnostics handler
DiagnosticsChanged ==
    /\ ~hung
    /\ diagEvent
    /\ \E faceDraw \in Draws(State, "faces"), audioDraw \in Draws(State, "phonk") :
          Becomes(CheckLinterErrors(Begin("diagnostics"), diagnostics,
                                    faceDraw, audioDraw))
    /\ diagEvent' = FALSE
    /\ UNCHANGED diagnostics

TextTimers == {i \in DOMAIN timers : timers[i].kind = "check"}

\* the onDidChangeTextDocument handler
TextChanged ==
    /\ ~hung
    /\ Cardinality(TextTimers) < MaxTextTimers
    /\ Becomes([Begin("text") EXCEPT
                   !.timers = Append(@, Timer("check", CHECK_DELAY))])
    /\ UNCHANGED <<diagnostics, diagEvent>>

\* seeded fault: the timer is armed with the fallback duration, not the estimate
ContinueFixedDelay(s, i, audioDuration) ==
    [s EXCEPT !.probes = RemoveAt(@, i),
              !.played = @ + 1,
              !.timers = Append(@, Timer("audio", FALLBACK_DURATION)),
              !.last.soundPath = s.probes[i]]

\* the continuation of updateSidebar after await getAudioDuration(soundPath)
\* gave audioDuration
Continue(s, i, audioDuration) ==
    [s EXCEPT !.probes = RemoveAt(@, i),
              !.played = @ + 1,
              !.timers = Append(@, Timer("audio", audioDuration)),
              !.last.soundPath = s.probes[i]]

ProbeResolved(s, i, chain) == Continue(s, i, AudioDuration[chain])

ProbeDone ==
    /\ ~hung
    /\ \E i \in DOMAIN probes, chain \in ProbeChains :
          Becomes(ProbeResolved(Begin("probe"), i, chain))
    /\ UNCHANGED <<diagnostics, diagEvent>>

\* An exec callback of the getAudioDuration call of the first pending probe,
\* run with (error, stdout): it starts the next command, or resolves the
\* promise, and then getAudioDuration returns and updateSidebar continues
\* before any other handler runs.
ExecCallback(s, error, stdout) ==
    LET ran == Append(s.execs, Ran(error, stdout))
        called == [s EXCEPT !.execs = ran]
    IN  IF Resolves(ran) THEN Continue(called, 1, ToMillis(ResolvedOutput(ran)))
                         ELSE called

\* the callback of exec(ffprobeCmd)
FfprobeDone ==
    /\ ~hung
    /\ probes # <<>>
    /\ execs = <<>>
    /\ \/ \E stdout \in Outputs :
             Becomes(ExecCallback(Begin("probe"), FALSE, stdout))
       \/ \E stdout \in UnreadOutputs :
             Becomes(ExecCallback(Begin("probe"), TRUE, stdout))
    /\ UNCHANGED <<diagnostics, diagEvent>>

\* the callback of exec(fallbackCmd)
FallbackDone ==
    /\ ~hung
    /\ probes # <<>>
    /\ Len(execs) = 1
    /\ RunsNext(execs[1])
    /\ \/ \E stdout \in Outputs :
             Becomes(ExecCallback(Begin("probe"), FALSE, stdout))
       \/ \E stdout \in UnreadOutputs :
             Becomes(ExecCallback(Begin("probe"), TRUE, stdout))
    /\ UNCHANGED <<diagnostics, diagEvent>>

\* the callback of exec(soxi)
SoxiDone ==
    /\ ~hung
    /\ probes # <<>>
    /\ Len(execs) = 2
    /\ RunsNext(execs[2])
    /\ \E error \in BOOLEAN, stdout \in Outputs :
          Becomes(ExecCallback(Begin("probe"), error, stdout))
    /\ UNCHANGED <<diagnostics, diagEvent>>

\* seeded fault: the callback does not reset the flag
AudioTimerFiredKeepsFlag(s) == UpdateSidebar(s, FALSE, 0, 0)

\* the callback of the timer armed after a sound's duration
AudioTimerFired(s) == UpdateSidebar([s EXCEPT !.isAudioPlaying = FALSE], FALSE, 0, 0)

\* the callback of the timer armed when no sound was found
FallbackTimerFired(s) == UpdateSidebar(s, FALSE, 0, 0)

Due == {i \in DOMAIN timers : timers[i].remaining = 0}

FireAudioTimer ==
    /\ ~hung
    /\ \E i \in Due :
          /\ timers[i].kind = "audio"
          /\ Becomes(AudioTimerFired([Begin("audioTimer") EXCEPT
                                         !.timers = RemoveAt(@, i)]))
    /\ UNCHANGED <<diagnostics, diagEvent>>

FireFallbackTimer ==
    /\ ~hung
    /\ \E i \in Due :
          /\ timers[i].kind = "fallback"
          /\ Becomes(FallbackTimerFired([Begin("fallbackTimer") EXCEPT
                                            !.timers = RemoveAt(@, i)]))
    /\ UNCHANGED <<diagnostics, diagEvent>>

FireCheckTimer ==
    /\ ~hung
    /\ \E i \in Due :
          /\ timers[i].kind = "check"
          /\ \E faceDraw \in Draws(State, "faces"),
                audioDraw \in Draws(State, "phonk") :
                Becomes(CheckLinterErrors([Begin("checkTimer") EXCEPT
                                              !.timers = RemoveAt(@, i)],
                                          diagnostics, faceDraw, audioDraw))
    /\ UNCHANGED <<diagnostics, diagEvent>>

MinRemaining ==
    CHOOSE r \in {timers[i].remaining : i \in DOMAIN timers} :
        \A i \in DOMAIN timers : r <= timers[i].remaining

\* time passes, up to the next timer's deadline: in steps of CHECK_DELAY or
\* straight to the deadline
Tick ==
    /\ ~hung
    /\ timers # <<>>
    /\ \E d \in {CHECK_DELAY, MinRemaining} :
          /\ d > 0
          /\ d <= MinRemaining
          /\ timers' = [i \in DOMAIN timers |->
                           [timers[i] EXCEPT !.remaining = @ - d]]
    /\ UNCHANGED <<assets, sidebarWebview, html, isAudioPlaying, lastFaceIndices,
                   lastAudioIndices, errorCount, diagnostics, diagEvent, probes,
                   played, hung, faceLog, audioLog, last, callBound, execs>>

\* After activate(): nothing resolved, nothing picked, and the first
\* checkLinterErrors() has stored the count it found.
Activated(bundles, maxCalls) ==
    /\ assets \in bundles
    /\ callBound = maxCalls
    /\ sidebarWebview = FALSE
    /\ html = [kind |-> "unset"]
    /\ isAudioPlaying = FALSE
    /\ lastFaceIndices = <<>>
    /\ lastAudioIndices = <<>>
    /\ diagnostics \in 0..MaxErrors
    /\ errorCount = diagnostics
    /\ diagEvent = FALSE
    /\ probes = <<>>
    /\ timers = <<>>
    /\ played = 0
    /\ hung = FALSE
    /\ faceLog = <<>>
    /\ audioLog = <<>>
    /\ last = [op |-> "activate", imagePath |-> Null, soundPath |-> Null,
               branch |-> "none"]
    /\ execs = <<>>

Init == Activated(SequencerAssets(SeqPool), SeqCalls)

Next ==
    \/ ResolveWebviewView
    \/ ManualTrigger
    \/ DiagnosticsSet
    \/ DiagnosticsChanged
    \/ TextChanged
    \/ ProbeDone
    \/ FireAudioTimer
    \/ FireFallbackTimer
    \/ FireCheckTimer
    \/ Tick

Spec == Init /\ [][Next]_vars

\* The event loop runs every callback that is ready, and time passes.
Fairness ==
    /\ WF_vars(DiagnosticsChanged)
    /\ WF_vars(ProbeDone)
    /\ WF_vars(FireAudioTimer)
    /\ WF_vars(FireFallbackTimer)
    /\ WF_vars(FireCheckTimer)
    /\ WF_vars(Tick)

InitFair == Activated(SequencerAssets(FairPool), FairCalls)

FairSpec == InitFair /\ [][Next]_vars /\ Fairness

\* Runs of the rotator alone: larger pools and more calls, no time passing.
InitRotator == Activated(RotatorAssets(MaxPool), MaxPicks)

NextRotator ==
    \/ ResolveWebviewView
    \/ ManualTrigger
    \/ DiagnosticsSet
    \/ DiagnosticsChanged

RotatorSpec == InitRotator /\ [][NextRotator]_vars

\* Runs that follow the getAudioDuration call of the first celebration
\* callback by callback, with one image and one sound in the bundle.
ProbeAssets ==
    {[faces |-> [exists |-> TRUE, files |-> Listing("faces", 1)],
      phonk |-> [exists |-> TRUE, files |-> Listing("phonk", 1)]]}

InitProbe == Activated(ProbeAssets, 1)

NextProbe ==
    \/ ResolveWebviewView
    \/ ManualTrigger
    \/ DiagnosticsSet
    \/ DiagnosticsChanged
    \/ FfprobeDone
    \/ FallbackDone
    \/ SoxiDone

ProbeSpec == InitProbe /\ [][NextProbe]_vars


\* Runs from the last statement but the command registration of activate():
\* the closure variables hold their initial values and the first
\* checkLinterErrors() of line 297 has not run.  No handler runs before it.
InitObserver ==
    /\ assets \in SequencerAssets(SeqPool)
    /\ callBound = SeqCalls
    /\ sidebarWebview = FALSE
    /\ html = [kind |-> "unset"]
    /\ isAudioPlaying = FALSE
    /\ lastFaceIndices = <<>>
    /\ lastAudioIndices = <<>>
    /\ diagnostics \in 0..MaxErrors
    /\ errorCount = 0
    /\ diagEvent = FALSE
    /\ probes = <<>>
    /\ timers = <<>>
    /\ played = 0
    /\ hung = FALSE
    /\ faceLog = <<>>
    /\ audioLog = <<>>
    /\ last = [op |-> "construct", imagePath |-> Null, soundPath |-> Null,
               branch |-> "none"]
    /\ execs = <<>>

\* checkLinterErrors() of line 297
ActivateCheck ==
    /\ last.op = "construct"
    /\ \E faceDraw \in Draws(State, "faces"), audioDraw \in Draws(State, "phonk") :
          Becomes(CheckLinterErrors(Begin("activate"), diagnostics,
                                    faceDraw, audioDraw))
    /\ UNCHANGED <<diagnostics, diagEvent>>

NextObserver ==
    \/ ActivateCheck
    \/ last.op # "construct" /\ Next

ObserverSpec == InitObserver /\ [][NextObserver]_vars

(* ------------------------- what the claims speak of -------------------- *)

Pool(directory) == Len(ValidFiles(assets[directory], directory))

History(directory) ==
    IF directory = "faces" THEN lastFaceIndices ELSE lastAudioIndices

Log(directory) == IF directory = "faces" THEN faceLog ELSE audioLog

LastOf(seq) == seq[Len(seq)]

LastN(seq, n) == SubSeq(seq, Len(seq) - n + 1, Len(seq))

Min2(a, b) == IF a <= b THEN a ELSE b

\* a step in which a handler calls updateSidebar(true)
TriggerStep ==
    \/ ManualTrigger
    \/ /\ DiagnosticsChanged \/ FireCheckTimer
       /\ Decreased(errorCount, diagnostics)
       /\ ~isAudioPlaying

\* a step in which the observer takes its image-only branch
ObserverImageStep ==
    /\ DiagnosticsChanged \/ FireCheckTimer
    /\ Decreased(errorCount, diagnostics)
    /\ isAudioPlaying

AudioTimers == {i \in DOMAIN timers : timers[i].kind = "audio"}

\* the pending timers that revert the surface
RevertTimers(ts) == SelectSeq(ts, LAMBDA timer : timer.kind # "check")

\* a step in which checkLinterErrors runs
ObserverStep == ActivateCheck \/ DiagnosticsChanged \/ FireCheckTimer

\* a step that leaves the sequencer and the rotator as they were
Untouched ==
    /\ UNCHANGED <<html, isAudioPlaying, lastFaceIndices, lastAudioIndices,
                   faceLog, audioLog, probes, played, hung>>
    /\ RevertTimers(timers') = RevertTimers(timers)

(* --------------------------------- claims ------------------------------ *)

\* C1: pick() terminates on every non-empty pool and every history earlier
\* picks can leave: in no reachable state has the event loop hung in the redraw
\* loop, and for each category with a pool of 1..MAX_HISTORY files some index
\* is accepted.  (Violated: 2 or 3 images.)
C1_PickTerminates ==
    /\ ~hung
    /\ \A d \in Directories :
          Pool(d) \in 1..MAX_HISTORY => AcceptedDraws(State, d) # {}

\* C5: with more files than MinFiles, a pick never returns an index that was
\* in the category's history when it was called, and so never the index of
\* the pick before it.
C5_NeverFromHistory ==
    [][\A d \in Directories :
          LET logAfter == IF d = "faces" THEN faceLog' ELSE audioLog'
          IN  (Pool(d) > MinFiles(d) /\ logAfter # Log(d)) =>
                 /\ logAfter = Append(Log(d), LastOf(logAfter))
                 /\ LastOf(logAfter) \notin Range(History(d))
                 /\ Log(d) # <<>> => LastOf(logAfter) # LastOf(Log(d))]_vars

\* C5 witness: four sounds picked from a pool of more than three.
C5_Witness ==
    /\ Pool("phonk") > MinFiles("phonk")
    /\ Len(audioLog) >= 4

\* C6: a history holds at most MAX_HISTORY indices, and they are the last
\* min(k, MAX_HISTORY) of the k indices picked, oldest first.
C6_HistoryIsLastPicks ==
    \A d \in Directories :
        /\ Len(History(d)) <= MAX_HISTORY
        /\ History(d) = LastN(Log(d), Min2(Len(Log(d)), MAX_HISTORY))

\* C6 witness: a fourth pick has evicted the first, which differs from it.
C6_Witness ==
    /\ Len(audioLog) = MAX_HISTORY + 1
    /\ audioLog[1] \notin Range(lastAudioIndices)
    /\ lastAudioIndices = Tail(audioLog)

\* C7: with the directory missing or no file passing the filter, pick()
\* returns NotFound and changes nothing: the call maps every reachable state
\* to itself, the category's history stays empty and the handler that ran last
\* holds no path for it.
C7_EmptyPoolNotFound ==
    \A d \in Directories :
        Pool(d) = 0 =>
            /\ \A draw \in 0..MaxPool :
                  GetRandomAsset(State, d, draw) = [s |-> State, path |-> Null]
            /\ History(d) = <<>>
            /\ Log(d) = <<>>
            /\ (IF d = "faces" THEN last.imagePath ELSE last.soundPath) = Null

\* C7 witness: a trigger has run with the image directory missing and the
\* sound directory holding no accepted file.
C7_Witness ==
    /\ ~assets["faces"].exists
    /\ assets["phonk"].exists /\ assets["phonk"].files # <<>> /\ Pool("phonk") = 0
    /\ last.op = "trigger"
    /\ last.branch = "noImage"

\* C9: with exactly one file, the loop can stop, on index 0 only, every pick
\* made has returned index 0, and every call of updateSidebar(true) that
\* reaches the pick returns that file.
C9_SingleFileAlwaysPicked ==
    /\ [](\A d \in Directories :
            Pool(d) = 1 =>
               /\ AcceptedDraws(State, d) = {0}
               /\ \A k \in DOMAIN Log(d) : Log(d)[k] = 0
               /\ GetRandomAsset(State, d, 0).path.file
                     = ValidFiles(assets[d], d)[1]
               /\ GetRandomAsset(State, d, 0).s.hung = hung)
    /\ [][(TriggerStep /\ sidebarWebview /\ Pool("faces") = 1) =>
             (faceLog' = Append(faceLog, 0) /\ last'.imagePath # Null)]_vars
    /\ [][(TriggerStep /\ sidebarWebview /\ Pool("phonk") = 1 /\ ~hung') =>
             (audioLog' = Append(audioLog, 0) /\ last'.soundPath # Null)]_vars

\* C9 witness: the only image was picked three times over.
C9_Witness ==
    /\ Pool("faces") = 1
    /\ faceLog = <<0, 0, 0>>
    /\ last.imagePath # Null

\* C2: at most one audio celebration is in flight (its probe unresolved or
\* its timer pending); a celebration call made while the flag is set arms no
\* revert timer and starts no probe; the flag is reset only by the audio
\* timer's callback, which leaves no audio timer or probe behind.
C2_OneAudioTimer ==
    /\ [](Cardinality(AudioTimers) + Len(probes) <= 1)
    /\ [][((TriggerStep \/ ObserverImageStep) /\ isAudioPlaying) =>
             /\ RevertTimers(timers') = RevertTimers(timers)
             /\ probes' = probes
             /\ isAudioPlaying']_vars
    /\ [][(isAudioPlaying /\ ~isAudioPlaying') =>
             /\ FireAudioTimer
             /\ {i \in DOMAIN timers' : timers'[i].kind = "audio"} = {}
             /\ probes' = <<>>]_vars

\* C2 witness: a trigger found a sound while the first probe was unresolved.
C2_Witness ==
    /\ last.op = "trigger"
    /\ last.branch = "imageOnly"
    /\ last.soundPath # Null
    /\ isAudioPlaying
    /\ Len(probes) = 1
    /\ timers = <<>>

\* C3: an image rendered by a trigger that found no sound stays until the
\* TIMEOUT timer that trigger armed fires: while such a timer has time left,
\* the surface shows an image.  (Violated: an earlier trigger's timer fires.)
C3_ShownUntilTimeout ==
    \A i \in DOMAIN timers :
        (timers[i].kind = "fallback" /\ timers[i].remaining > 0) =>
            html.kind = "image"

\* C4: every audio celebration ends with the flag reset and the surface
\* blank, and with no timer and no probe pending the sequencer is idle and
\* shows no image.  (Violated: a trigger during the celebration hangs in the
\* redraw loop of C1, and no callback runs again.)
C4_CelebrationEnds ==
    /\ isAudioPlaying ~> (~isAudioPlaying /\ html = Blank)
    /\ []((RevertTimers(timers) = <<>> /\ probes = <<>>) =>
             (~isAudioPlaying /\ html.kind # "image"))

\* C8: a trigger in Idle with no image available changes neither the flag nor
\* the surface, launches no playback, starts no probe and arms no timer.
C8_NoImageNoCelebration ==
    [][(TriggerStep /\ ~isAudioPlaying /\ sidebarWebview /\ Pool("faces") = 0) =>
          /\ ~isAudioPlaying'
          /\ html' = html
          /\ played' = played
          /\ probes' = probes
          /\ RevertTimers(timers') = RevertTimers(timers)
          /\ last'.branch = "noImage"]_vars

\* C8 witness: a trigger found a sound and no image.
C8_Witness ==
    /\ last.op = "trigger"
    /\ last.branch = "noImage"
    /\ last.soundPath # Null
    /\ sidebarWebview
    /\ ~isAudioPlaying

\* C10: a trigger without a display surface picks nothing and changes
\* nothing.
C10_NoSurfaceNoOp ==
    [][(TriggerStep /\ ~sidebarWebview) =>
          /\ UNCHANGED <<isAudioPlaying, html, lastFaceIndices, lastAudioIndices,
                         faceLog, audioLog, probes, played, hung>>
          /\ RevertTimers(timers') = RevertTimers(timers)
          /\ last'.branch = "noSurface"]_vars

\* C10 witness: a trigger ran before the webview was resolved, with an image
\* and a sound in the bundle.
C10_Witness ==
    /\ last.op = "trigger"
    /\ last.branch = "noSurface"
    /\ ~sidebarWebview
    /\ Pool("faces") > 0
    /\ Pool("phonk") > 0

\* the first exec callback that ran without error, 0 when every one failed
FirstSuccess(ran) ==
    IF \A i \in DOMAIN ran : ran[i].error THEN 0
    ELSE CHOOSE i \in DOMAIN ran :
            ~ran[i].error /\ \A j \in 1..(i - 1) : ran[j].error

\* the getAudioDuration call that was followed has resolved
CallResolved == execs # <<>> /\ probes = <<>>

\* C11: the probes run in order and none runs after one has succeeded; the
\* resolved duration is the first succeeding probe's output, floored to whole
\* milliseconds ("3.5" from the second probe gives 3500), and 5000 when every
\* probe failed or the output is zero or no number.  (Violated: soxi fails
\* and has written a number.)
C11_DurationOfFirstSuccess ==
    /\ \A i \in DOMAIN execs : \A j \in 1..(i - 1) : execs[j].error
    /\ CallResolved =>
          /\ Len(timers) = 1
          /\ timers[1].kind = "audio"
          /\ timers[1].remaining =
                IF FirstSuccess(execs) = 0 THEN 5000
                ELSE ToMillis(execs[FirstSuccess(execs)].stdout)
          /\ (Len(execs) = 2 /\ ~execs[2].error /\ execs[2].stdout = <<"3", ".", "5">>)
                => timers[1].remaining = 3500
          /\ (~execs[Len(execs)].error
                /\ execs[Len(execs)].stdout \in {<<"0">>, <<"0", ".", "0">>, <<"N">>, <<>>})
                => timers[1].remaining = 5000


\* C12: a run of the observer enters the celebration path (the image-only
\* branch when audio is playing, updateSidebar(true) otherwise) exactly when
\* the count it sums is strictly below the stored one; with an equal or
\* higher count, and in the first run of activate(), it touches nothing; every
\* run that returns stores the count it summed.
C12_CelebratesOnStrictDecrease ==
    [][ObserverStep =>
          /\ (last'.branch # "none" \/ hung') <=> diagnostics < errorCount
          /\ (diagnostics < errorCount /\ ~hung') =>
                (last'.branch = "observerImage" <=> isAudioPlaying)
          /\ diagnostics >= errorCount => Untouched
          /\ ActivateCheck => (Untouched /\ last'.branch = "none")
          /\ ~hung' => errorCount' = diagnostics]_vars

\* C12 witness: the diagnostics handler saw the count fall from 1 to 0 and
\* started a celebration with audio.
C12_Witness ==
    /\ last.op = "diagnostics"
    /\ last.branch = "audio"
    /\ last.imagePath # Null
    /\ isAudioPlaying
    /\ errorCount = 0
    /\ diagnostics = 0


\* C13: a trigger while audio is playing that finds an image and a sound
\* renders the image and extends the two histories, and nothing else: the flag
\* stays set, every pending timer keeps its place and its remaining time, no
\* probe and no playback is started; and the audio timer pending at that
\* moment still fires.  (Violated: a later trigger hangs in the redraw loop of
\* C1 and the timer's callback never runs.)
C13_TriggerWhilePlaying ==
    /\ [][(TriggerStep /\ isAudioPlaying /\ sidebarWebview
             /\ last'.imagePath # Null /\ last'.soundPath # Null) =>
             /\ html' = Image(last'.imagePath)
             /\ faceLog' = Append(faceLog, last'.imagePath.index)
             /\ audioLog' = Append(audioLog, last'.soundPath.index)
             /\ isAudioPlaying'
             /\ timers' = timers
             /\ probes' = probes
             /\ played' = played
             /\ UNCHANGED <<errorCount, sidebarWebview, hung>>]_vars
    /\ (last.op = "trigger" /\ last.branch = "imageOnly" /\ AudioTimers # {})
          ~> (last.op = "audioTimer")


\* C14: a trigger that enters Celebrating picks the image and the sound,
\* renders the image, sets the flag and starts the duration estimation, and
\* launches no playback and arms no timer; playback is launched once, in the
\* step in which the estimation resolves, and in that same step (no wait for
\* the player) the timer is armed with the estimate as its delay.
C14_CelebrationOrder ==
    /\ [][(TriggerStep /\ last'.branch = "audio") =>
             /\ faceLog' = Append(faceLog, last'.imagePath.index)
             /\ audioLog' = Append(audioLog, last'.soundPath.index)
             /\ html' = Image(last'.imagePath)
             /\ ~isAudioPlaying /\ isAudioPlaying'
             /\ probes' = Append(probes, last'.soundPath)
             /\ execs' = <<>>
             /\ played' = played
             /\ timers' = timers]_vars
    /\ [][(played' # played \/ timers' # timers) =>
             /\ probes # <<>> /\ probes' = Tail(probes)
             /\ ~Resolves(execs) /\ Resolves(execs')
             /\ played' = played + 1
             /\ timers' = Append(timers,
                                 Timer("audio", ToMillis(ResolvedOutput(execs'))))
             /\ isAudioPlaying /\ isAudioPlaying'
             /\ html' = html]_vars

\* C14 witness: ffprobe failed, the platform fallback wrote 3.5, playback was
\* launched and the timer armed with 3500 ms.
C14_Witness ==
    /\ CallResolved
    /\ Len(execs) = 2
    /\ execs[2] = Ran(FALSE, <<"3", ".", "5", "\n">>)
    /\ played = 1
    /\ timers = <<Timer("audio", 3500)>>
    /\ isAudioPlaying
    /\ html.kind = "image"


\* C15: when the observer sees a decrease while audio is playing, it picks an
\* image and renders it, and nothing else: no sound is picked, the flag stays
\* set, no probe or playback is started and no revert timer is armed or removed.
C15_ObserverImageOnly ==
    [][ObserverImageStep =>
          /\ UNCHANGED <<audioLog, lastAudioIndices, probes, played,
                         sidebarWebview>>
          /\ isAudioPlaying'
          /\ RevertTimers(timers') = RevertTimers(timers)
          /\ Len(timers') <= Len(timers)
          /\ ~hung' =>
                /\ last'.branch = "observerImage"
                /\ last'.soundPath = Null
                /\ IF Pool("faces") > 0
                      THEN /\ last'.imagePath # Null
                           /\ faceLog' = Append(faceLog, last'.imagePath.index)
                           /\ html' = Image(last'.imagePath)
                      ELSE UNCHANGED <<faceLog, lastFaceIndices, html>>]_vars

\* C15 witness: the observer rendered an image while the only sound's timer
\* was pending, and that sound was picked once.
C15_Witness ==
    /\ last.op \in {"diagnostics", "checkTimer"}
    /\ last.branch = "observerImage"
    /\ html = Image(last.imagePath)
    /\ isAudioPlaying
    /\ AudioTimers # {}
    /\ Len(audioLog) = 1
    /\ Len(faceLog) = 2


\* C16: a trigger whose image pick finds nothing touches neither the
\* sequencer nor the rotator: it picks no sound and both histories stay as
\* they were.  (Violated: the sound is picked before the image is tested.)
C16_NoImageNoPick ==
    [][(TriggerStep /\ sidebarWebview /\ Pool("faces") = 0) =>
          /\ Untouched
          /\ last'.soundPath = Null]_vars


\* C17: the flag is set exactly when one audio celebration is in flight, its
\* probe unresolved or its timer armed and not yet fired; with the flag clear
\* no probe and no audio timer is pending.
C17_FlagIffInFlight ==
    /\ isAudioPlaying <=> (Len(probes) + Cardinality(AudioTimers) = 1)
    /\ ~isAudioPlaying => (probes = <<>> /\ AudioTimers = {})

\* C17 witness: the second celebration's timer is due and has not fired, and
\* the flag is still set.
C17_Witness ==
    /\ isAudioPlaying
    /\ probes = <<>>
    /\ played = 2
    /\ \E i \in AudioTimers : timers[i].remaining = 0


\* C18: one decrease of the count causes at most one call into the
\* celebration path.  A count below the stored one arises only when the
\* registry's count falls; a run of the check enters the celebration path
\* only on such a count, enters it once, and on its return the stored count is
\* the current one; so a check by either source that finds the count the last
\* check stored touches nothing.
C18_OneCallPerDecrease ==
    /\ [][(diagnostics >= errorCount /\ diagnostics' < errorCount') =>
             (DiagnosticsSet /\ diagnostics' < diagnostics)]_vars
    /\ [][ObserverStep =>
             /\ (last'.branch # "none" \/ hung') => diagnostics < errorCount
             /\ Len(faceLog') <= Len(faceLog) + 1
             /\ Len(audioLog') <= Len(audioLog) + 1
             /\ ~hung' => diagnostics' >= errorCount']_vars
    /\ [][((DiagnosticsChanged \/ FireCheckTimer) /\ diagnostics = errorCount) =>
             (Untouched /\ last'.branch = "none")]_vars

\* C18 witness: the count fell to 0, a celebration with audio is in flight
\* after one pick, and the check timer's run at the same count did nothing.
C18_Witness ==
    /\ last.op = "checkTimer"
    /\ last.branch = "none"
    /\ errorCount = 0
    /\ diagnostics = 0
    /\ ~diagEvent
    /\ isAudioPlaying
    /\ faceLog = <<0>>
    /\ audioLog = <<0>>


=============================================================================
